---------------------------- MODULE Spec2Model ----------------------------
(***************************************************************************)
(* The front end of jlox (crafting-interpreters-in-rust): the Scanner of   *)
(* src/jlox/src/scanner.rs and the recursive-descent Parser of             *)
(* src/jlox/src/parser.rs, with the diagnostics of src/jlox/src/lox.rs.    *)
(*                                                                         *)
(* Indices are the source's: `start`, `current` and the parser's cursor    *)
(* count from 0 as the Rust vectors do; TLA+ sequences count from 1, so    *)
(* the element the source writes v[i] is v[i + 1] here.                    *)
(***************************************************************************)
EXTENDS Integers, Sequences, FiniteSets

VARIABLES
    source,         \* Scanner.source: the characters of the program text
    tokens,         \* Scanner.tokens, which Parser.tokens borrows (lox.rs:65-68)
    start,          \* Scanner.start
    current,        \* Scanner.current
    line,           \* Scanner.line
    scan_pc,        \* where scan_tokens is: "scanning", "done", "panicked"
    steps,          \* history: the range [start, current) and kind of every scan_token call
    reports,        \* what Lox::report has printed, in order
    parser_current, \* Parser.current
    stack,          \* the call stack of the parser's productions
    ret,            \* the Result the production that just returned handed to its caller
    parse_pc,       \* Parser::parse: "off", "ready", "running", "done", "panicked";
                    \* Parser::synchronize: "sync_ready", "sync_loop", "sync_done"
    result          \* what Parser::parse returned

vars == <<source, tokens, start, current, line, scan_pc, steps, reports,
          parser_current, stack, ret, parse_pc, result>>

(***************************************************************************)
(* Bounds of the model.                                                    *)
(***************************************************************************)
MaxSrcLen == 4

MaxTokens == 5

(***************************************************************************)
(* Characters.  One or two representatives of every class scan_token tells *)
(* apart: letters (with "or" a reserved word), the underscore, a digit,    *)
(* the dot, the quote, the newline, the slash, a blank, a two-character    *)
(* operator's first character, and a character no arm accepts.             *)
(***************************************************************************)
Letters ==
    {"a", "b", "c", "d", "e", "f", "g", "h", "i", "j", "k", "l", "m",
     "n", "o", "p", "q", "r", "s", "t", "u", "v", "w", "x", "y", "z"}

Digits == {"0", "1", "2", "3", "4", "5", "6", "7", "8", "9"}

Alphabet == {"o", "r", "1", "_", ".", "\"", "\n", "/", " ", "=", "@"}

Nul == "\\0"

IsAsciiDigit(c) == c \in Digits

\* char::is_alphabetic, on the ASCII lower-case letters
IsAlphabetic(c) == c \in Letters

\* char::is_alphanumeric of the standard library: alphabetic or numeric.
\* The underscore is neither.
CharIsAlphanumeric(c) == IsAlphabetic(c) \/ IsAsciiDigit(c)

is_alpha(c) == IsAlphabetic(c) \/ c = "_"

is_alphanumeric(c) == is_alpha(c) \/ IsAsciiDigit(c)

KeywordTable ==
    { << <<"a", "n", "d">>, "AND" >>,
      << <<"c", "l", "a", "s", "s">>, "CLASS" >>,
      << <<"e", "l", "s", "e">>, "ELSE" >>,
      << <<"f", "a", "l", "s", "e">>, "FALSE" >>,
      << <<"f", "o", "r">>, "FOR" >>,
      << <<"f", "u", "n">>, "FUN" >>,
      << <<"i", "f">>, "IF" >>,
      << <<"n", "i", "l">>, "NIL" >>,
      << <<"o", "r">>, "OR" >>,
      << <<"p", "r", "i", "n", "t">>, "PRINT" >>,
      << <<"r", "e", "t", "u", "r", "n">>, "RETURN" >>,
      << <<"s", "u", "p", "e", "r">>, "SUPER" >>,
      << <<"t", "h", "i", "s">>, "THIS" >>,
      << <<"t", "r", "u", "e">>, "TRUE" >>,
      << <<"v", "a", "r">>, "VAR" >>,
      << <<"w", "h", "i", "l", "e">>, "WHILE" >> }

KeywordTypes == { kw[2] : kw \in KeywordTable }

\* self.keywords.get(text).unwrap_or(&TokenType::IDENTIFIER)
KeywordOrIdentifier(text) ==
    IF \E kw \in KeywordTable : kw[1] = text
    THEN (CHOOSE kw \in KeywordTable : kw[1] = text)[2]
    ELSE "IDENTIFIER"

(***************************************************************************)
(* Tokens and diagnostics.                                                 *)
(***************************************************************************)
NoLiteral == [kind |-> "None", value |-> <<>>]

StrLiteral(chars) == [kind |-> "Str", value |-> chars]

\* Literal::Number(f64): the value is carried as the decimal text it was
\* parsed from.
NumberLiteral(text) == [kind |-> "Number", value |-> text]

Token(token_type, lexeme, literal, ln) ==
    [token_type |-> token_type, lexeme |-> lexeme, literal |-> literal, line |-> ln]

\* The kinds of the tokens, in order.
TokenTypes == [ i \in 1..Len(tokens) |-> tokens[i].token_type ]

NoWhere == [at |-> "none", lexeme |-> <<>>]

\* Lox::report: one printed line.
Report(ln, where, message) == [line |-> ln, where |-> where, message |-> message]

\* Lox::error
LoxError(ln, message) == Append(reports, Report(ln, NoWhere, message))

(***************************************************************************)
(* Scanner helpers.                                                        *)
(***************************************************************************)
source_len == Len(source)

At(i) == source[i + 1]

is_at_end(cur) == cur >= source_len

peek(cur) == IF is_at_end(cur) THEN Nul ELSE At(cur)

peek_next(cur) == IF cur + 1 >= source_len THEN Nul ELSE At(cur + 1)

\* matches: the cursor after the call; it moved iff the call returned true.
matches(cur, expected) ==
    IF is_at_end(cur) \/ At(cur) # expected THEN cur ELSE cur + 1

\* Variant: the slice taken one character short.
LexemeMutShort(s, cur) == SubSeq(source, s + 1, cur - 1)

\* &self.source[self.start..self.current] collected into the lexeme
Lexeme(s, cur) == SubSeq(source, s + 1, cur)

\* add_token_literal
add_token_literal(token_type, literal, s, cur, ln) ==
    Append(tokens, Token(token_type, Lexeme(s, cur), literal, ln))

\* add_token
add_token(token_type, s, cur, ln) == add_token_literal(token_type, NoLiteral, s, cur, ln)

\* while self.peek() != '\n' && !self.is_at_end() { self.advance(); }
RECURSIVE CommentEnd(_)
CommentEnd(cur) ==
    IF peek(cur) # "\n" /\ ~is_at_end(cur) THEN CommentEnd(cur + 1) ELSE cur

\* while self.peek().is_ascii_digit() { self.advance(); }
RECURSIVE DigitsEnd(_)
DigitsEnd(cur) == IF IsAsciiDigit(peek(cur)) THEN DigitsEnd(cur + 1) ELSE cur

\* Variant: the dot taken without looking at the character after it.
NumberTakesDotMutNoLookahead(cur) == peek(cur) = "."

\* if self.peek() == '.' && self.peek_next().is_ascii_digit()
NumberTakesDot(cur) == peek(cur) = "." /\ IsAsciiDigit(peek_next(cur))

\* number: the cursor after the digits and the optional fraction
NumberEnd(cur) ==
    LET whole == DigitsEnd(cur)
    IN  IF NumberTakesDot(whole) THEN DigitsEnd(whole + 1) ELSE whole

\* The test of identifier's loop: self.peek().is_alphanumeric(), the
\* standard library's method on char and not Scanner::is_alphanumeric.
IdentifierContinues(c) == CharIsAlphanumeric(c)

\* while self.peek().is_alphanumeric() { self.advance(); }
RECURSIVE IdentifierEnd(_)
IdentifierEnd(cur) ==
    IF IdentifierContinues(peek(cur)) THEN IdentifierEnd(cur + 1) ELSE cur

\* string's loop: the cursor and the line when it stops
RECURSIVE StringLoop(_, _)
StringLoop(cur, ln) ==
    IF peek(cur) # "\"" /\ ~is_at_end(cur)
    THEN StringLoop(cur + 1, IF peek(cur) = "\n" THEN ln + 1 ELSE ln)
    ELSE [current |-> cur, line |-> ln]

(***************************************************************************)
(* The parser's part of the state while the scanner runs.                  *)
(***************************************************************************)
NoExpr == [node |-> "None"]

NoResult == [ok |-> FALSE, expr |-> NoExpr, set |-> FALSE]

ParserOff ==
    /\ parser_current = 0
    /\ stack = <<>>
    /\ ret = NoResult
    /\ parse_pc = "off"
    /\ result = NoResult

(***************************************************************************)
(* Scanner::new followed by the first test of scan_tokens' loop.           *)
(***************************************************************************)
Sources == UNION { [1..n -> Alphabet] : n \in 0..MaxSrcLen }

InitScan ==
    /\ source \in Sources
    /\ tokens = <<>>
    /\ start = 0
    /\ current = 0
    /\ line = 1
    /\ scan_pc = "scanning"
    /\ steps = <<>>
    /\ reports = <<>>
    /\ ParserOff

(***************************************************************************)
(* One iteration of scan_tokens' loop: self.start = self.current, then     *)
(* scan_token, which advances over c and takes one arm of its match.       *)
(* ScanStep is what every arm that returns leaves behind.                  *)
(***************************************************************************)
InLoop == scan_pc = "scanning" /\ ~is_at_end(current)

ScanStep(toks, cur, ln, reps, kind) ==
    /\ start' = current
    /\ tokens' = toks
    /\ current' = cur
    /\ line' = ln
    /\ reports' = reps
    /\ steps' = Append(steps, [start |-> current, current |-> cur, kind |-> kind])
    /\ scan_pc' = "scanning"
    /\ UNCHANGED <<source, parser_current, stack, ret, parse_pc, result>>

SingleCharType(c) ==
    CASE c = "(" -> "LEFT_PAREN"
      [] c = ")" -> "RIGHT_PAREN"
      [] c = "{" -> "LEFT_BRACE"
      [] c = "}" -> "RIGHT_BRACE"
      [] c = "," -> "COMMA"
      [] c = "." -> "DOT"
      [] c = "-" -> "MINUS"
      [] c = "+" -> "PLUS"
      [] c = ";" -> "SEMICOLON"
      [] c = "*" -> "STAR"

SingleChars == {"(", ")", "{", "}", ",", ".", "-", "+", ";", "*"}

ScanPunctuation ==
    /\ InLoop
    /\ At(current) \in SingleChars
    /\ ScanStep(add_token(SingleCharType(At(current)), current, current + 1, line),
                current + 1, line, reports, "token")

OperatorChars == {"!", "=", "<", ">"}

OperatorType(c, two) ==
    CASE c = "!" -> IF two THEN "BANG_EQUAL" ELSE "BANG"
      [] c = "=" -> IF two THEN "EQUAL_EQUAL" ELSE "EQUAL"
      [] c = "<" -> IF two THEN "LESS_EQUAL" ELSE "LESS"
      [] c = ">" -> IF two THEN "GREATER_EQUAL" ELSE "GREATER"

ScanOperator ==
    /\ InLoop
    /\ At(current) \in OperatorChars
    /\ LET cur == matches(current + 1, "=")
       IN  ScanStep(add_token(OperatorType(At(current), cur # current + 1),
                              current, cur, line),
                    cur, line, reports, "token")

ScanSlash ==
    /\ InLoop
    /\ At(current) = "/"
    /\ LET cur == matches(current + 1, "/")
       IN  IF cur # current + 1
           THEN ScanStep(tokens, CommentEnd(cur), line, reports, "comment")
           ELSE ScanStep(add_token("SLASH", current, cur, line),
                         cur, line, reports, "token")

ScanBlank ==
    /\ InLoop
    /\ At(current) \in {" ", "\r", "\t"}
    /\ ScanStep(tokens, current + 1, line, reports, "blank")

ScanNewline ==
    /\ InLoop
    /\ At(current) = "\n"
    /\ ScanStep(tokens, current + 1, line + 1, reports, "newline")

\* string: at the end of input the second advance indexes source at
\* source_len, which panics (Vec indexing is bounds-checked in every build).
ScanString ==
    /\ InLoop
    /\ At(current) = "\""
    /\ LET stop == StringLoop(current + 1, line)
       IN  IF is_at_end(stop.current)
           THEN /\ reports' = LoxError(stop.line, "Unterminated string.")
                /\ start' = current
                /\ current' = stop.current
                /\ line' = stop.line
                /\ scan_pc' = "panicked"
                /\ UNCHANGED <<source, tokens, steps,
                               parser_current, stack, ret, parse_pc, result>>
           ELSE LET cur == stop.current + 1
                    value == SubSeq(source, current + 2, cur - 1)
                IN  ScanStep(add_token_literal("STRING", StrLiteral(value),
                                               current, cur, stop.line),
                             cur, stop.line, reports, "token")

ScanNumber ==
    /\ InLoop
    /\ IsAsciiDigit(At(current))
    /\ LET cur == NumberEnd(current + 1)
       IN  ScanStep(add_token_literal("NUMBER", NumberLiteral(Lexeme(current, cur)),
                                      current, cur, line),
                    cur, line, reports, "token")

ScanIdentifier ==
    /\ InLoop
    /\ ~IsAsciiDigit(At(current))
    /\ is_alpha(At(current))
    /\ LET cur == IdentifierEnd(current + 1)
       IN  ScanStep(add_token(KeywordOrIdentifier(Lexeme(current, cur)),
                              current, cur, line),
                    cur, line, reports, "token")

ScanUnexpected ==
    /\ InLoop
    /\ At(current) \notin SingleChars \cup OperatorChars \cup {"/", " ", "\r", "\t", "\n", "\""}
    /\ ~IsAsciiDigit(At(current))
    /\ ~is_alpha(At(current))
    /\ ScanStep(tokens, current + 1, line,
                LoxError(line, "Unexpected character."), "bad")

\* scan_tokens after the loop: the EOF token, and the return.
ScanEof ==
    /\ scan_pc = "scanning"
    /\ is_at_end(current)
    /\ tokens' = Append(tokens, Token("EOF", <<>>, NoLiteral, line))
    /\ scan_pc' = "done"
    /\ UNCHANGED <<source, start, current, line, steps, reports,
                   parser_current, stack, ret, parse_pc, result>>

NextScan ==
    \/ ScanPunctuation
    \/ ScanOperator
    \/ ScanSlash
    \/ ScanBlank
    \/ ScanNewline
    \/ ScanString
    \/ ScanNumber
    \/ ScanIdentifier
    \/ ScanUnexpected
    \/ ScanEof

Spec == InitScan /\ [][NextScan]_vars

(***************************************************************************)
(* The expression tree of src/jlox/src/expr.rs.                            *)
(***************************************************************************)
Literal(kind, value) == [node |-> "Literal", kind |-> kind, value |-> value]

Unary(operator, right) == [node |-> "Unary", operator |-> operator, right |-> right]

Binary(left, operator, right) ==
    [node |-> "Binary", left |-> left, operator |-> operator, right |-> right]

Grouping(expr) == [node |-> "Grouping", expr |-> expr]

Ok(expr) == [ok |-> TRUE, expr |-> expr, set |-> TRUE]

Err == [ok |-> FALSE, expr |-> NoExpr, set |-> TRUE]

\* token_op_to_expr_binops, on the kinds its callers have matched
token_op_to_expr_binops(token_type) ==
    CASE token_type = "BANG_EQUAL" -> "BangEqual"
      [] token_type = "EQUAL_EQUAL" -> "EqualEqual"
      [] token_type = "GREATER" -> "Greater"
      [] token_type = "GREATER_EQUAL" -> "GreaterEqual"
      [] token_type = "LESS" -> "Less"
      [] token_type = "LESS_EQUAL" -> "LessEqual"
      [] token_type = "SLASH" -> "Slash"
      [] token_type = "STAR" -> "Star"
      [] token_type = "MINUS" -> "Minus"
      [] token_type = "PLUS" -> "Plus"

\* token_op_to_expr_unops, on the kinds unary has matched
token_op_to_expr_unops(token_type) ==
    CASE token_type = "BANG" -> "Bang"
      [] token_type = "MINUS" -> "Minus"

(***************************************************************************)
(* The parser's cursor.  Every read of tokens goes through peek or         *)
(* previous; an index outside the vector panics.                           *)
(***************************************************************************)
InBounds(i) == 0 <= i /\ i < Len(tokens)

\* Variant: peek reading one token too far.
PeekIndexMutNext(cur) == cur + 1

\* peek: &self.tokens[self.current]
PeekIndex(cur) == cur

\* previous: &self.tokens[self.current - 1]
PreviousIndex(cur) == cur - 1

TokenAt(i) == tokens[i + 1]

parser_peek(cur) == TokenAt(PeekIndex(cur))

parser_is_at_end(cur) == parser_peek(cur).token_type = "EOF"

check(cur, token_type) ==
    IF parser_is_at_end(cur) THEN FALSE ELSE parser_peek(cur).token_type = token_type

\* advance: the cursor after the call (it returns previous())
advance(cur) == IF ~parser_is_at_end(cur) THEN cur + 1 ELSE cur

previous(cur) == TokenAt(PreviousIndex(cur))

\* matches returned true
Matched(cur, token_types) == \E token_type \in token_types : check(cur, token_type)

\* matches: the cursor after the call
parser_matches(cur, token_types) ==
    IF Matched(cur, token_types) THEN advance(cur) ELSE cur

\* The indices matches reads, and previous() after it when it matched.
MatchReads(cur, token_types) ==
    {PeekIndex(cur)} \cup
       (IF InBounds(PeekIndex(cur)) /\ Matched(cur, token_types)
        THEN {PreviousIndex(advance(cur))}
        ELSE {})

\* Lox::parse_error: where the report points
ParseErrorWhere(token) ==
    IF token.token_type = "EOF"
    THEN [at |-> "end", lexeme |-> <<>>]
    ELSE [at |-> "lexeme", lexeme |-> token.lexeme]

\* Variant: the failure returned without a report.
errorMutSilent(token, msg) == reports

\* Parser::error: Lox::parse_error reports the token and the message
error(token, msg) == Append(reports, Report(token.line, ParseErrorWhere(token), msg))

(***************************************************************************)
(* The productions.  A frame is one call of a production: the function,    *)
(* where in its body it is, and its locals `expr` and `operator`.  A step  *)
(* runs the top frame from where it is to its next call or its return.     *)
(***************************************************************************)
Frame(fn) == [fn |-> fn, pc |-> "entry", expr |-> NoExpr, operator |-> "none"]

Top == stack[Len(stack)]

Callers == SubSeq(stack, 1, Len(stack) - 1)

Running(fn) == parse_pc = "running" /\ stack # <<>> /\ Top.fn = fn

\* The top frame, left as `frame`, calls `callee`.
CallFrom(frame, callee, cur) ==
    /\ stack' = Append(Append(Callers, frame), Frame(callee))
    /\ ret' = NoResult
    /\ parser_current' = cur
    /\ UNCHANGED <<source, tokens, start, current, line, scan_pc, steps,
                   reports, parse_pc, result>>

\* The top frame returns r to its caller.
ReturnFrom(r, cur, reps) ==
    /\ stack' = Callers
    /\ ret' = r
    /\ parser_current' = cur
    /\ reports' = reps
    /\ UNCHANGED <<source, tokens, start, current, line, scan_pc, steps,
                   parse_pc, result>>

\* An index out of the vector's bounds: the thread panics.
Panic ==
    /\ parse_pc' = "panicked"
    /\ UNCHANGED <<source, tokens, start, current, line, scan_pc, steps,
                   reports, parser_current, stack, ret, result>>

\* The production each level parses its operands with.
EqualityLeft == "comparison"

\* Variant: equality parsing its right operand with itself, as comparison does.
EqualityRightMutSelf == "equality"

EqualityRight == "comparison"

ComparisonLeft == "term"

ComparisonRight == "comparison"

TermLeft == "factor"

TermRight == "factor"

FactorLeft == "unary"

\* Variant: factor parsing its right operand a level too low.
FactorRightMutTerm == "term"

FactorRight == "unary"

EqualityOperators == {"BANG_EQUAL", "EQUAL_EQUAL"}

ComparisonOperators == {"GREATER", "GREATER_EQUAL", "LESS", "LESS_EQUAL"}

TermOperators == {"PLUS", "MINUS"}

FactorOperators == {"SLASH", "STAR"}

UnaryOperators == {"BANG", "MINUS"}

\* The shape equality, comparison, term and factor share: the left
\* operand, then while matches(operators): the operator, the right
\* operand, and the fold into a Binary with expr on the left.
BinaryLevel(fn, operators, left, right) ==
    /\ Running(fn)
    /\ IF Top.pc = "entry"
       THEN CallFrom([Top EXCEPT !.pc = "left"], left, parser_current)
       ELSE IF ~ret.ok
       THEN ReturnFrom(Err, parser_current, reports)
       ELSE LET expr == IF Top.pc = "left"
                        THEN ret.expr
                        ELSE Binary(Top.expr, Top.operator, ret.expr)
                cur == parser_matches(parser_current, operators)
            IN  IF \E i \in MatchReads(parser_current, operators) : ~InBounds(i)
                THEN Panic
                ELSE IF Matched(parser_current, operators)
                THEN CallFrom([Top EXCEPT
                                  !.pc = "right",
                                  !.expr = expr,
                                  !.operator =
                                      token_op_to_expr_binops(previous(cur).token_type)],
                              right, cur)
                ELSE ReturnFrom(Ok(expr), cur, reports)

Equality == BinaryLevel("equality", EqualityOperators, EqualityLeft, EqualityRight)

Comparison ==
    BinaryLevel("comparison", ComparisonOperators, ComparisonLeft, ComparisonRight)

Term == BinaryLevel("term", TermOperators, TermLeft, TermRight)

Factor == BinaryLevel("factor", FactorOperators, FactorLeft, FactorRight)

Expression ==
    /\ Running("expression")
    /\ IF Top.pc = "entry"
       THEN CallFrom([Top EXCEPT !.pc = "equality"], "equality", parser_current)
       ELSE ReturnFrom(ret, parser_current, reports)

UnaryProduction ==
    /\ Running("unary")
    /\ IF Top.pc = "entry"
       THEN LET cur == parser_matches(parser_current, UnaryOperators)
            IN  IF \E i \in MatchReads(parser_current, UnaryOperators) : ~InBounds(i)
                THEN Panic
                ELSE IF Matched(parser_current, UnaryOperators)
                THEN CallFrom([Top EXCEPT
                                  !.pc = "right",
                                  !.operator =
                                      token_op_to_expr_unops(previous(cur).token_type)],
                              "unary", cur)
                ELSE CallFrom([Top EXCEPT !.pc = "primary"], "primary", cur)
       ELSE IF ~ret.ok
       THEN ReturnFrom(Err, parser_current, reports)
       ELSE IF Top.pc = "right"
       THEN ReturnFrom(Ok(Unary(Top.operator, ret.expr)), parser_current, reports)
       ELSE ReturnFrom(Ok(ret.expr), parser_current, reports)

PrimaryStarts == {"FALSE", "TRUE", "NIL", "STRING", "NUMBER", "LEFT_PAREN"}

\* primary up to its first call or return
PrimaryEntry ==
    LET cur == parser_current
        next == advance(cur)
    IN  IF \E i \in MatchReads(cur, PrimaryStarts) : ~InBounds(i)
        THEN Panic
        ELSE IF Matched(cur, {"FALSE"})
        THEN ReturnFrom(Ok(Literal("False", <<>>)), next, reports)
        ELSE IF Matched(cur, {"TRUE"})
        THEN ReturnFrom(Ok(Literal("True", <<>>)), next, reports)
        ELSE IF Matched(cur, {"NIL"})
        THEN ReturnFrom(Ok(Literal("Nil", <<>>)), next, reports)
        ELSE IF Matched(cur, {"STRING"})
        THEN IF previous(next).literal.kind = "Str"
             THEN ReturnFrom(Ok(Literal("String", previous(next).literal.value)),
                             next, reports)
             ELSE ReturnFrom(Err, next, reports)
        ELSE IF Matched(cur, {"NUMBER"})
        THEN IF previous(next).literal.kind = "Number"
             THEN ReturnFrom(Ok(Literal("Number", previous(next).literal.value)),
                             next, reports)
             ELSE ReturnFrom(Err, next, reports)
        ELSE IF Matched(cur, {"LEFT_PAREN"})
        THEN CallFrom([Top EXCEPT !.pc = "group"], "expression", next)
        ELSE ReturnFrom(Err, cur, error(parser_peek(cur), "Expect expression."))

\* consume(RIGHT_PAREN, ...) after the parenthesised expression returned
PrimaryGroup ==
    LET cur == parser_current
    IN  IF ~ret.ok
        THEN ReturnFrom(Err, cur, reports)
        ELSE IF \E i \in MatchReads(cur, {"RIGHT_PAREN"}) : ~InBounds(i)
        THEN Panic
        ELSE IF check(cur, "RIGHT_PAREN")
        THEN ReturnFrom(Ok(Grouping(ret.expr)), advance(cur), reports)
        ELSE ReturnFrom(Err, cur,
                        error(parser_peek(cur), "Expect ')' after expression."))

Primary ==
    /\ Running("primary")
    /\ IF Top.pc = "entry" THEN PrimaryEntry ELSE PrimaryGroup

\* Parser::parse calls expression
ParseCall ==
    /\ parse_pc = "ready"
    /\ parse_pc' = "running"
    /\ stack' = <<Frame("expression")>>
    /\ UNCHANGED <<source, tokens, start, current, line, scan_pc, steps,
                   reports, parser_current, ret, result>>

\* Parser::parse returns Some(e) for Ok(e) and None for Err
ParseReturn ==
    /\ parse_pc = "running"
    /\ stack = <<>>
    /\ result' = ret
    /\ parse_pc' = "done"
    /\ UNCHANGED <<source, tokens, start, current, line, scan_pc, steps,
                   reports, parser_current, stack, ret>>

NextParse ==
    \/ ParseCall
    \/ Expression
    \/ Equality
    \/ Comparison
    \/ Term
    \/ Factor
    \/ UnaryProduction
    \/ Primary
    \/ ParseReturn


(***************************************************************************)
(* Lox::run hands the scanner's tokens to Parser::new.  The parser is      *)
(* started on the scan of a source that holds one token per line, so that  *)
(* a token's line is its place in the sequence.                            *)
(***************************************************************************)
LexemeOfType(token_type) ==
    CASE token_type = "NUMBER" -> <<"1">>
      [] token_type = "STRING" -> <<"\"", "o", "\"">>
      [] token_type = "TRUE" -> <<"t", "r", "u", "e">>
      [] token_type = "FALSE" -> <<"f", "a", "l", "s", "e">>
      [] token_type = "NIL" -> <<"n", "i", "l">>
      [] token_type = "IDENTIFIER" -> <<"o">>
      [] token_type = "PLUS" -> <<"+">>
      [] token_type = "MINUS" -> <<"-">>
      [] token_type = "STAR" -> <<"*">>
      [] token_type = "SLASH" -> <<"/">>
      [] token_type = "BANG" -> <<"!">>
      [] token_type = "BANG_EQUAL" -> <<"!", "=">>
      [] token_type = "EQUAL_EQUAL" -> <<"=", "=">>
      [] token_type = "LESS" -> <<"<">>
      [] token_type = "LESS_EQUAL" -> <<"<", "=">>
      [] token_type = "GREATER" -> <<">">>
      [] token_type = "GREATER_EQUAL" -> <<">", "=">>
      [] token_type = "LEFT_PAREN" -> <<"(">>
      [] token_type = "RIGHT_PAREN" -> <<")">>
      [] token_type = "SEMICOLON" -> <<";">>
      [] token_type = "CLASS" -> <<"c", "l", "a", "s", "s">>
      [] token_type = "FUN" -> <<"f", "u", "n">>
      [] token_type = "VAR" -> <<"v", "a", "r">>
      [] token_type = "FOR" -> <<"f", "o", "r">>
      [] token_type = "IF" -> <<"i", "f">>
      [] token_type = "WHILE" -> <<"w", "h", "i", "l", "e">>
      [] token_type = "PRINT" -> <<"p", "r", "i", "n", "t">>
      [] token_type = "RETURN" -> <<"r", "e", "t", "u", "r", "n">>

LiteralOfType(token_type) ==
    CASE token_type = "NUMBER" -> NumberLiteral(LexemeOfType(token_type))
      [] token_type = "STRING" ->
            StrLiteral(SubSeq(LexemeOfType(token_type), 2,
                              Len(LexemeOfType(token_type)) - 1))
      [] OTHER -> NoLiteral

\* The scan of the source that holds the lexemes of `types`, each followed
\* by a newline: its text, its tokens before EOF and its steps.
RECURSIVE ScanOfLines(_, _)
ScanOfLines(types, acc) ==
    IF types = <<>>
    THEN acc
    ELSE LET lex == LexemeOfType(Head(types))
             s == Len(acc.source)
             c == s + Len(lex)
         IN  ScanOfLines(Tail(types),
                 [source |-> acc.source \o lex \o <<"\n">>,
                  tokens |-> Append(acc.tokens,
                                    Token(Head(types), lex, LiteralOfType(Head(types)),
                                          Len(acc.tokens) + 1)),
                  steps |-> acc.steps \o
                            << [start |-> s, current |-> c, kind |-> "token"],
                               [start |-> c, current |-> c + 1, kind |-> "newline"] >>])

TokenTypeSeqs(alphabet) == UNION { [1..n -> alphabet] : n \in 0..MaxTokens }

\* Parser::new on the tokens scan_tokens returned
InitParse(alphabet) ==
    \E types \in TokenTypeSeqs(alphabet) :
        LET scan == ScanOfLines(types, [source |-> <<>>, tokens |-> <<>>, steps |-> <<>>])
        IN  /\ source = scan.source
            /\ tokens = Append(scan.tokens,
                               Token("EOF", <<>>, NoLiteral, Len(types) + 1))
            /\ start = (IF types = <<>> THEN 0 ELSE Len(scan.source) - 1)
            /\ current = Len(scan.source)
            /\ line = Len(types) + 1
            /\ scan_pc = "done"
            /\ steps = scan.steps
            /\ reports = <<>>
            /\ parser_current = 0
            /\ stack = <<>>
            /\ ret = NoResult
            /\ parse_pc = "ready"
            /\ result = NoResult

\* Chains of equality and comparison operators over numbers and sums.
ChainAlphabet == {"NUMBER", "EQUAL_EQUAL", "BANG_EQUAL", "LESS", "GREATER_EQUAL", "PLUS"}

InitParseChains == InitParse(ChainAlphabet)

SpecParseChains == InitParseChains /\ [][NextParse]_vars

\* One operator of every precedence level, the minus both binary and unary.
PrecedenceAlphabet == {"NUMBER", "EQUAL_EQUAL", "LESS", "PLUS", "MINUS", "STAR"}

InitParsePrecedence == InitParse(PrecedenceAlphabet)

SpecParsePrecedence == InitParsePrecedence /\ [][NextParse]_vars

\* Literals, parentheses, an operator, and a token no production accepts.
ErrorAlphabet == {"NUMBER", "STRING", "PLUS", "LEFT_PAREN", "RIGHT_PAREN", "SEMICOLON"}

InitParseErrors == InitParse(ErrorAlphabet)

SpecParseErrors == InitParseErrors /\ [][NextParse]_vars

(***************************************************************************)
(* Parser::synchronize.  Nothing in the repository calls it; it is run     *)
(* here from every cursor position of a scanned token sequence.            *)
(***************************************************************************)
StatementStarts == {"CLASS", "FUN", "VAR", "FOR", "IF", "WHILE", "PRINT", "RETURN"}

\* A step of synchronize that changes the cursor and where the function is.
SynchronizeStep(cur, pc) ==
    /\ parser_current' = cur
    /\ parse_pc' = pc
    /\ UNCHANGED <<source, tokens, start, current, line, scan_pc, steps,
                   reports, stack, ret, result>>

\* self.advance(): is_at_end reads peek, and advance returns previous(),
\* which reads tokens[current - 1].  With the cursor at 0 on EOF the index
\* is 0 - 1: the subtraction panics where overflow is checked, and wraps
\* to usize::MAX, an index out of bounds, where it is not.
SynchronizeCall ==
    /\ parse_pc = "sync_ready"
    /\ IF ~InBounds(PeekIndex(parser_current))
       THEN Panic
       ELSE IF ~InBounds(PreviousIndex(advance(parser_current)))
       THEN Panic
       ELSE SynchronizeStep(advance(parser_current), "sync_loop")

\* One test of the loop and, when it holds, one pass through its body.
SynchronizeLoop ==
    /\ parse_pc = "sync_loop"
    /\ LET cur == parser_current
       IN  IF ~InBounds(PeekIndex(cur))
           THEN Panic
           ELSE IF parser_is_at_end(cur)
           THEN SynchronizeStep(cur, "sync_done")
           ELSE IF ~InBounds(PreviousIndex(cur))
           THEN Panic
           ELSE IF previous(cur).token_type = "SEMICOLON"
           THEN SynchronizeStep(cur, "sync_done")
           ELSE IF parser_peek(cur).token_type \in StatementStarts
           THEN SynchronizeStep(cur, "sync_done")
           ELSE IF ~InBounds(PreviousIndex(advance(cur)))
           THEN Panic
           ELSE SynchronizeStep(advance(cur), "sync_loop")

NextSynchronize ==
    \/ SynchronizeCall
    \/ SynchronizeLoop

\* A statement end, two statement starts, and two tokens that are neither.
SynchronizeAlphabet == {"SEMICOLON", "VAR", "PRINT", "NUMBER", "PLUS"}

\* Parser::new on scanned tokens, with the cursor anywhere up to EOF.
InitSynchronize ==
    \E types \in TokenTypeSeqs(SynchronizeAlphabet) :
        LET scan == ScanOfLines(types, [source |-> <<>>, tokens |-> <<>>, steps |-> <<>>])
        IN  /\ source = scan.source
            /\ tokens = Append(scan.tokens,
                               Token("EOF", <<>>, NoLiteral, Len(types) + 1))
            /\ start = (IF types = <<>> THEN 0 ELSE Len(scan.source) - 1)
            /\ current = Len(scan.source)
            /\ line = Len(types) + 1
            /\ scan_pc = "done"
            /\ steps = scan.steps
            /\ reports = <<>>
            /\ parser_current \in 0..Len(types)
            /\ stack = <<>>
            /\ ret = NoResult
            /\ parse_pc = "sync_ready"
            /\ result = NoResult

SpecSynchronize == InitSynchronize /\ [][NextSynchronize]_vars

(***************************************************************************)
(* Properties of the parser.                                               *)
(***************************************************************************)
RECURSIVE Nodes(_)
Nodes(e) ==
    CASE e.node = "Binary" -> {e} \cup Nodes(e.left) \cup Nodes(e.right)
      [] e.node = "Unary" -> {e} \cup Nodes(e.right)
      [] e.node = "Grouping" -> {e} \cup Nodes(e.expr)
      [] OTHER -> {e}

IsBinaryOf(e, operators) == e.node = "Binary" /\ e.operator \in operators

EqualityOps == {"EqualEqual", "BangEqual"}

ComparisonOps == {"Greater", "GreaterEqual", "Less", "LessEqual"}

TermOps == {"Plus", "Minus"}

FactorOps == {"Star", "Slash"}

\* The hierarchy of the grammar: a larger number binds tighter.
PrecedenceOf(operator) ==
    CASE operator \in EqualityOps -> 1
      [] operator \in ComparisonOps -> 2
      [] operator \in TermOps -> 3
      [] operator \in FactorOps -> 4

One == Literal("Number", <<"1">>)

Parsed == parse_pc = "done" /\ result.ok

\* C4: the operands of a comparison operator are terms, and a chain of
\* comparison operators folds to the left: no comparison node has a
\* comparison or equality node as its right operand, and 1 < 1 < 1 parses
\* to Binary(Binary(1, <, 1), <, 1).
C4_ComparisonChainsFoldLeft ==
    Parsed =>
        /\ \A n \in Nodes(result.expr) :
              IsBinaryOf(n, ComparisonOps) =>
                  /\ ~IsBinaryOf(n.right, ComparisonOps \cup EqualityOps)
                  /\ ~IsBinaryOf(n.left, EqualityOps)
        /\ TokenTypes = <<"NUMBER", "LESS", "NUMBER", "LESS", "NUMBER", "EOF">> =>
              result.expr = Binary(Binary(One, "Less", One), "Less", One)

\* C5: a chain of equality operators folds to the left: no equality node
\* has an equality node as its right operand, and a op1 b op2 c, for
\* op1, op2 among == and !=, parses to Binary(Binary(a, op1, b), op2, c).
C5_EqualityChainsFoldLeft ==
    /\ Parsed =>
          \A n \in Nodes(result.expr) :
              IsBinaryOf(n, EqualityOps) => ~IsBinaryOf(n.right, EqualityOps)
    /\ \A op1, op2 \in EqualityOperators :
          (/\ parse_pc = "done"
           /\ TokenTypes = <<"NUMBER", op1, "NUMBER", op2, "NUMBER", "EOF">>) =>
              /\ result.ok
              /\ result.expr = Binary(Binary(One, token_op_to_expr_binops(op1), One),
                                      token_op_to_expr_binops(op2), One)

\* 1 == 1 != 1 has been parsed.
C5_Witness ==
    /\ Parsed
    /\ TokenTypes = <<"NUMBER", "EQUAL_EQUAL", "NUMBER", "BANG_EQUAL", "NUMBER", "EOF">>
    /\ IsBinaryOf(result.expr, {"BangEqual"})
    /\ IsBinaryOf(result.expr.left, {"EqualEqual"})

\* C6: in a parsed tree a binary node's operand is never a binary node of
\* lower precedence, and a unary node's operand is never a binary node;
\* 1 + 1 * 1 parses to Binary(1, +, Binary(1, *, 1)) and 1 * 1 + 1 to
\* Binary(Binary(1, *, 1), +, 1).
C6_TighterOperatorsLieDeeper ==
    Parsed =>
        /\ \A n \in Nodes(result.expr) :
              /\ n.node = "Binary" =>
                    /\ n.left.node = "Binary" =>
                          PrecedenceOf(n.left.operator) >= PrecedenceOf(n.operator)
                    /\ n.right.node = "Binary" =>
                          PrecedenceOf(n.right.operator) >= PrecedenceOf(n.operator)
              /\ n.node = "Unary" => n.right.node # "Binary"
        /\ TokenTypes = <<"NUMBER", "PLUS", "NUMBER", "STAR", "NUMBER", "EOF">> =>
              result.expr = Binary(One, "Plus", Binary(One, "Star", One))
        /\ TokenTypes = <<"NUMBER", "STAR", "NUMBER", "PLUS", "NUMBER", "EOF">> =>
              result.expr = Binary(Binary(One, "Star", One), "Plus", One)
        /\ TokenTypes = <<"NUMBER", "LESS", "NUMBER", "PLUS", "NUMBER", "EOF">> =>
              result.expr = Binary(One, "Less", Binary(One, "Plus", One))
        /\ TokenTypes = <<"MINUS", "NUMBER", "STAR", "NUMBER", "EOF">> =>
              result.expr = Binary(Unary("Minus", One), "Star", One)

\* A parsed tree in which a product is the right operand of a sum.
C6_Witness ==
    /\ Parsed
    /\ IsBinaryOf(result.expr, TermOps)
    /\ IsBinaryOf(result.expr.right, FactorOps)
    /\ parser_current = Len(tokens) - 1

\* C7: a parse that fails has made exactly one report, which carries the
\* token at the cursor, "at end" when that token is EOF; a parse that
\* succeeds has made none; and ( 1 + 1 fails with the one report
\* "Expect ')' after expression.".
C7_FailureReportsOnce ==
    parse_pc = "done" =>
        /\ result.ok => reports = <<>>
        /\ ~result.ok =>
              /\ Len(reports) = 1
              /\ reports[1].line = TokenAt(parser_current).line
              /\ reports[1].where.lexeme = TokenAt(parser_current).lexeme
              /\ reports[1].where.at = "end" <=> TokenAt(parser_current).token_type = "EOF"
              /\ reports[1].where.at = "lexeme" <=> TokenAt(parser_current).token_type # "EOF"
              /\ reports[1].message \in {"Expect expression.", "Expect ')' after expression."}
        /\ TokenTypes = <<"LEFT_PAREN", "NUMBER", "PLUS", "NUMBER", "EOF">> =>
              /\ ~result.ok
              /\ Len(reports) = 1
              /\ reports[1].message = "Expect ')' after expression."
              /\ reports[1].where.at = "end"

\* A parse that failed on a missing ')' before a token that is not EOF.
C7_Witness ==
    /\ parse_pc = "done"
    /\ ~result.ok
    /\ Len(reports) = 1
    /\ reports[1].message = "Expect ')' after expression."
    /\ reports[1].where.at = "lexeme"
    /\ parser_current >= 2

\* C10: while parse runs, no read of tokens is out of bounds, the cursor
\* stays between 0 and the index of the EOF token, it never decreases from
\* one step to the next, and the parser changes nothing of the token
\* sequence.
C10_CursorOnlyAdvancesWithinTokens ==
    /\ [](/\ parse_pc # "panicked"
          /\ 0 <= parser_current
          /\ parser_current <= Len(tokens) - 1
          /\ tokens[Len(tokens)].token_type = "EOF")
    /\ [][parser_current' >= parser_current /\ tokens' = tokens]_vars

\* A parse that ended with the cursor on the EOF token after moving over
\* at least three tokens.
C10_Witness ==
    /\ parse_pc = "done"
    /\ Len(tokens) >= 4
    /\ parser_current = Len(tokens) - 1

\* The cursor is at a statement boundary.
AtStatementBoundary(cur) ==
    \/ TokenAt(cur).token_type = "EOF"
    \/ cur >= 1 /\ TokenAt(cur - 1).token_type = "SEMICOLON"
    \/ TokenAt(cur).token_type \in StatementStarts

\* C11: called at any cursor position of a token sequence that ends in
\* EOF, synchronize returns normally (it never panics) with the cursor at
\* a statement boundary: on EOF, right after a SEMICOLON, or on one of
\* CLASS, FUN, VAR, FOR, IF, WHILE, PRINT, RETURN; and it moves the cursor
\* only forward.
C11_SynchronizeReturnsAtBoundary ==
    /\ [](/\ parse_pc # "panicked"
          /\ parse_pc = "sync_done" => AtStatementBoundary(parser_current))
    /\ [][parser_current' >= parser_current]_vars

(***************************************************************************)
(* Properties of the scanner.                                              *)
(***************************************************************************)
IsTokenStep(st) == st.kind = "token"

\* The ranges of the scan_token calls that added a token, in order: the
\* i-th is the range of tokens[i].
TokenSteps == SelectSeq(steps, IsTokenStep)

MessageCount(message) ==
    Cardinality({ i \in 1..Len(reports) : reports[i].message = message })

DotCount(chars) == Cardinality({ i \in 1..Len(chars) : chars[i] = "." })

\* C1: for every source, scan_tokens returns normally (it never panics),
\* and the sequence it returns holds exactly one EOF token, its last.
C1_ScanReturnsOneEofLast ==
    /\ scan_pc # "panicked"
    /\ scan_pc = "done" =>
          /\ Len(tokens) >= 1
          /\ tokens[Len(tokens)].token_type = "EOF"
          /\ \A i \in 1..(Len(tokens) - 1) : tokens[i].token_type # "EOF"

\* C2: once "Unterminated string." has been reported, it has been reported
\* exactly once, the scan has not aborted, and the finished scan ends with
\* EOF and holds no STRING token for the unclosed text; a source that is an
\* opening quote followed by letters yields just [EOF].
C2_UnterminatedStringStillEndsWithEof ==
    MessageCount("Unterminated string.") >= 1 =>
        /\ MessageCount("Unterminated string.") = 1
        /\ scan_pc # "panicked"
        /\ scan_pc = "done" =>
              /\ tokens[Len(tokens)].token_type = "EOF"
              /\ \A i \in 1..Len(tokens) :
                    tokens[i].token_type = "STRING" =>
                        /\ Len(tokens[i].lexeme) >= 2
                        /\ tokens[i].lexeme[Len(tokens[i].lexeme)] = "\""
              /\ (source = <<"\"", "o", "r">> => TokenTypes = <<"EOF">>)

\* C3: an identifier or keyword token starts at a letter or underscore and
\* runs over all the letters, digits and underscores that follow it; its
\* kind is the keyword's when its text is a reserved word, and IDENTIFIER
\* otherwise.
C3_IdentifierTakesWholeWord ==
    \A i \in 1..Len(TokenSteps) :
        tokens[i].token_type \in KeywordTypes \cup {"IDENTIFIER"} =>
            LET s == TokenSteps[i].start
                c == TokenSteps[i].current
            IN  /\ is_alpha(At(s))
                /\ \A j \in s..(c - 1) : is_alphanumeric(At(j))
                /\ c < source_len => ~is_alphanumeric(At(c))
                /\ \A kw \in KeywordTable :
                      tokens[i].lexeme = kw[1] <=> tokens[i].token_type = kw[2]

\* C8: a NUMBER lexeme starts and ends with a digit and holds at most one
\* dot, so a dot is taken only with a digit right after it; when a dot
\* follows the token in the source, the next token is the DOT for it, as
\* in 111. which is NUMBER 111, DOT, EOF.
C8_NumberTakesDotOnlyBeforeDigit ==
    /\ \A i \in 1..Len(TokenSteps) :
          tokens[i].token_type = "NUMBER" =>
              LET s == TokenSteps[i].start
                  c == TokenSteps[i].current
                  lex == tokens[i].lexeme
              IN  /\ lex = SubSeq(source, s + 1, c)
                  /\ \A j \in 1..Len(lex) : lex[j] \in Digits \cup {"."}
                  /\ lex[1] \in Digits
                  /\ lex[Len(lex)] \in Digits
                  /\ DotCount(lex) <= 1
                  /\ (DotCount(lex) = 0 /\ c + 1 < source_len /\ At(c) = ".")
                        => At(c + 1) \notin Digits
                  /\ (scan_pc = "done" /\ c < source_len /\ At(c) = ".") =>
                        /\ tokens[i + 1].token_type = "DOT"
                        /\ TokenSteps[i + 1].start = c
    /\ (scan_pc = "done" /\ source = <<"1", "1", "1", ".">>) =>
          /\ TokenTypes = <<"NUMBER", "DOT", "EOF">>
          /\ tokens[1].lexeme = <<"1", "1", "1">>

\* A finished scan with a digit run, then a dot that the NUMBER left to a
\* DOT token of its own.
C8_Witness ==
    /\ scan_pc = "done"
    /\ \E i \in 1..(Len(tokens) - 1) :
          /\ tokens[i].token_type = "NUMBER"
          /\ DotCount(tokens[i].lexeme) = 0
          /\ Len(tokens[i].lexeme) >= 2
          /\ tokens[i + 1].token_type = "DOT"
          /\ TokenSteps[i + 1].start = TokenSteps[i].current

\* What a step that added no token went over.
SkippedRightly(st) ==
    LET s == st.start
        c == st.current
    IN  CASE st.kind = "blank" -> c = s + 1 /\ At(s) \in {" ", "\r", "\t"}
          [] st.kind = "newline" -> c = s + 1 /\ At(s) = "\n"
          [] st.kind = "comment" ->
                /\ c >= s + 2
                /\ At(s) = "/" /\ At(s + 1) = "/"
                /\ \A j \in s..(c - 1) : At(j) # "\n"
                /\ c < source_len => At(c) = "\n"
          [] st.kind = "bad" ->
                /\ c = s + 1
                /\ ~IsAsciiDigit(At(s)) /\ ~is_alpha(At(s))
                /\ At(s) \notin SingleChars \cup OperatorChars \cup {"/", "\""}
          [] OTHER -> FALSE

\* C9: in the output of scan_tokens every token but EOF has as lexeme the
\* source text of the range its scan step went over; the ranges are
\* disjoint and in source order; what lies between them is blanks,
\* newlines, comments and characters reported as unexpected; and the line
\* numbers never decrease along the sequence.
C9_LexemesTileTheSource ==
    scan_pc = "done" =>
        /\ Len(TokenSteps) = Len(tokens) - 1
        /\ \A i \in 1..Len(TokenSteps) :
              /\ TokenSteps[i].start < TokenSteps[i].current
              /\ tokens[i].lexeme =
                     SubSeq(source, TokenSteps[i].start + 1, TokenSteps[i].current)
        /\ \A i \in 1..(Len(TokenSteps) - 1) :
              TokenSteps[i].current <= TokenSteps[i + 1].start
        /\ \A k \in 1..Len(steps) :
              /\ steps[k].start = (IF k = 1 THEN 0 ELSE steps[k - 1].current)
              /\ steps[k].start < steps[k].current
              /\ steps[k].kind # "token" => SkippedRightly(steps[k])
        /\ (IF steps = <<>> THEN 0 ELSE steps[Len(steps)].current) = source_len
        /\ MessageCount("Unexpected character.") =
              Cardinality({ k \in 1..Len(steps) : steps[k].kind = "bad" })
        /\ Len(reports) = MessageCount("Unexpected character.")
        /\ \A i \in 1..(Len(tokens) - 1) : tokens[i].line <= tokens[i + 1].line
        /\ tokens[Len(tokens)].lexeme = <<>>

\* A finished scan whose tokens lie on different lines, with a comment, a
\* blank or an unexpected character between them.
C9_Witness ==
    /\ scan_pc = "done"
    /\ Len(tokens) >= 3
    /\ tokens[1].line < tokens[2].line
    /\ \E k \in 1..Len(steps) : steps[k].kind \in {"comment", "bad", "blank"}


=============================================================================
